---- MODULE Spec2Model ----
(***************************************************************************)
(* A model of neuromaps/datasets/annotations.py: the predicate matcher     *)
(* (_match_annot), the grouping engine (_groupby_match), the cache-fill    *)
(* loop of fetch_annotation and get_annotations_desc.                      *)
(*                                                                         *)
(* Python strings are sequences of one-character strings, so that          *)
(* `f in comp` on a string is a substring test and on a list a membership  *)
(* test, as in Python.  A Python value is a record [kind, s, l]:           *)
(* kind "none" (None), "str" (the string s) or "list" (the list l of       *)
(* strings).                                                               *)
(***************************************************************************)
EXTENDS Naturals, Sequences, FiniteSets, TLC

VARIABLES
    \* _match_annot applied to an input
    m_info, m_kwargs, m_out, m_pc,
    \* _groupby_match applied to an input
    g_fnames, g_single, g_out, g_pc,
    \* get_annotations_desc applied to an input
    d_annots, d_out, d_warnings, d_pc,
    \* fetch_annotation: per invocation, the position in the function (f_pc),
    \* the arguments, the matched records (info), the loop index, the paths
    \* collected (data), the file _fetch_file returned (dl_file), the I/O
    \* done by the call so far and the value returned
    f_pc, f_args, f_info, f_n, f_data, f_dl_file, f_io, f_out,
    \* the files under <data_dir>/annotations, and the calls made so far
    cache, ncalls,
    \* history: a call that returned (its arguments and result), and whether
    \* the running call of each invocation started after it
    first, after

m_vars == <<m_info, m_kwargs, m_out, m_pc>>
g_vars == <<g_fnames, g_single, g_out, g_pc>>
d_vars == <<d_annots, d_out, d_warnings, d_pc>>
f_vars == <<f_pc, f_args, f_info, f_n, f_data, f_dl_file, f_io, f_out, cache,
            ncalls, first, after>>
vars == <<m_vars, g_vars, d_vars, f_vars>>

-----------------------------------------------------------------------------
(* Python values *)

PyNone == [kind |-> "none", s |-> <<>>, l |-> <<>>]
PyStr(x) == [kind |-> "str", s |-> x, l |-> <<>>]
PyList(x) == [kind |-> "list", s |-> <<>>, l |-> x]

\* isinstance(v, str)
IsStr(v) == v.kind = "str"

\* bool(v): None, '' and [] are falsy
Truthy(v) == \/ v.kind = "str" /\ v.s # <<>>
             \/ v.kind = "list" /\ v.l # <<>>

\* a or b
PyOr(a, b) == IF Truthy(a) THEN a ELSE b

\* f in s, for strings f and s: f occurs in s as a contiguous part
IsSubstr(f, s) ==
    \E k \in 0..Len(s) :
        /\ k + Len(f) <= Len(s)
        /\ SubSeq(s, k + 1, k + Len(f)) = f

\* f in comp: a substring test when comp is a string, a membership test
\* when comp is a list
PyIn(f, comp) ==
    IF comp.kind = "str"
    THEN IsSubstr(f, comp.s)
    ELSE \E j \in 1..Len(comp.l) : comp.l[j] = f

\* all(f in comp for f in value), any(f in comp for f in value)
PyAll(value, comp) == \A j \in 1..Len(value) : PyIn(value[j], comp)
PyAny(value, comp) == \E j \in 1..Len(value) : PyIn(value[j], comp)

\* the wildcard literal
ALL == <<"a", "l", "l">>

-----------------------------------------------------------------------------
(* _match_annot *)

KEYS == <<"source", "desc", "space", "hemi", "tags", "format">>
ALLKEYS == {"source", "desc", "space", "den", "res", "hemi", "tags", "format"}

\* no keyword supplied
NoKwargs == [k \in ALLKEYS |-> PyNone]

\* tags should always be a list
NormTags(kwargs) ==
    IF IsStr(kwargs["tags"])
    THEN [kwargs EXCEPT !["tags"] = PyList(<<kwargs["tags"].s>>)]
    ELSE kwargs

\* vals = [vals] if isinstance(vals, str) else vals
AsList(vals) ==
    IF vals.kind = "str" THEN <<vals.s>>
    ELSE IF vals.kind = "list" THEN vals.l
    ELSE <<>>

\* the den and res constraints, collected into one list
DenRes(kwargs) == AsList(kwargs["den"]) \o AsList(kwargs["res"])

\* KeyStep with the wildcard tested before the record's value: a record
\* without the attribute passes the wildcard
KeyStepWildcardFirst(match, dset, kwargs, key) ==
    LET comp == dset[key]
        value == kwargs[key]
    IN  IF value.kind = "none" THEN match
        ELSE IF IsStr(value) /\ value.s = ALL THEN match
        ELSE IF comp.kind = "none" THEN FALSE
        ELSE IF IsStr(value) THEN match /\ comp = value
        ELSE IF key = "tags"
             THEN match /\ PyAll(value.l, comp)
             ELSE match /\ PyAny(value.l, comp)

\* one pass of the loop over the keys: the new value of `match`
KeyStep(match, dset, kwargs, key) ==
    LET comp == dset[key]
        value == kwargs[key]
    IN  IF value.kind = "none" THEN match
        ELSE IF comp.kind = "none" THEN FALSE
        ELSE IF IsStr(value)
             THEN (IF value.s # ALL THEN match /\ comp = value ELSE match)
        ELSE IF key = "tags"
             THEN match /\ PyAll(value.l, comp)
             ELSE match /\ PyAny(value.l, comp)

RECURSIVE KeyLoop(_, _, _, _)
KeyLoop(match, dset, kwargs, n) ==
    IF n > Len(KEYS) THEN match
    ELSE KeyLoop(KeyStep(match, dset, kwargs, KEYS[n]), dset, kwargs, n + 1)

\* (dset.get('den') or dset.get('res')) in denres
DenResMatch(dset, denres) ==
    LET v == PyOr(dset["den"], dset["res"])
    IN  \E j \in 1..Len(denres) : PyStr(denres[j]) = v

\* whether dset is appended to out
DsetMatch(dset, kwargs) ==
    LET kw == NormTags(kwargs)
        denres == DenRes(kw)
        match == KeyLoop(TRUE, dset, kw, 1)
    IN  IF Len(denres) > 0 THEN match /\ DenResMatch(dset, denres) ELSE match

RECURSIVE FilterSeq(_, _)
FilterSeq(info, kwargs) ==
    IF info = <<>> THEN <<>>
    ELSE (IF DsetMatch(Head(info), kwargs) THEN <<Head(info)>> ELSE <<>>)
         \o FilterSeq(Tail(info), kwargs)

MatchAnnot(info, kwargs) == FilterSeq(info, kwargs)

-----------------------------------------------------------------------------
(* Catalog records *)

\* one '_'-separated segment of a filename, 'lab-val'
Seg(lab, val) == [lab |-> lab, val |-> val]

D10k == <<"1", "0", "k">>
D32k == <<"3", "2", "k">>
R1mm == <<"1", "m", "m">>

\* the filename of an annotation: source-S_desc-D_space-P_(den|res)-V_..._feature.ext
Fname(source, desc, space, dr, v, rest) ==
    <<Seg("source", source), Seg("desc", desc), Seg("space", space), Seg(dr, v)>>
    \o rest

Rec(source, den, res, hemi, tags, format, fname) ==
    [source |-> source, desc |-> PyStr(<<"d">>), space |-> PyStr(<<"p">>),
     den |-> den, res |-> res, hemi |-> hemi, tags |-> tags,
     format |-> format, fname |-> fname,
     rel_path |-> <<"d", "p">>, url |-> fname, checksum |-> fname]

FeatL == <<Seg("hemi", <<"L">>), Seg("feature", <<"g">>)>>
FeatR == <<Seg("hemi", <<"R">>), Seg("feature", <<"g">>)>>
FeatV == <<Seg("feature", <<"n">>)>>

\* source s, surface, density 10k, left and right hemisphere
RecA == Rec(PyStr(<<"s">>), PyStr(D10k), PyNone, PyStr(<<"L">>),
            PyList(<<<<"a">>, <<"b">>>>), PyStr(<<"x">>),
            Fname(<<"s">>, <<"d">>, <<"p">>, "den", D10k, FeatL))
RecB == Rec(PyStr(<<"s">>), PyStr(D10k), PyNone, PyStr(<<"R">>),
            PyList(<<<<"a">>, <<"b">>>>), PyStr(<<"x">>),
            Fname(<<"s">>, <<"d">>, <<"p">>, "den", D10k, FeatR))
\* source s, density 32k, one tag
RecC == Rec(PyStr(<<"s">>), PyStr(D32k), PyNone, PyStr(<<"L">>),
            PyList(<<<<"b">>>>), PyStr(<<"y">>),
            Fname(<<"s">>, <<"d">>, <<"p">>, "den", D32k, FeatL))
\* source st, volumetric (no hemi), resolution 1mm, a tag and a format that
\* contain other records' values as proper parts
RecD == Rec(PyStr(<<"s", "t">>), PyNone, PyStr(R1mm), PyNone,
            PyList(<<<<"a", "b">>>>), PyStr(<<"x", "y">>),
            Fname(<<"s", "t">>, <<"d">>, <<"p">>, "res", R1mm, FeatV))
\* den is null and res is the string 10k; no tags
RecE == Rec(PyStr(<<"t">>), PyNone, PyStr(D10k), PyNone,
            PyNone, PyStr(<<"y">>),
            Fname(<<"t">>, <<"d">>, <<"p">>, "res", D10k, FeatV))
\* a record without source, den, res and format
RecF == Rec(PyNone, PyNone, PyNone, PyNone,
            PyList(<<ALL, <<"a">>>>), PyNone,
            Fname(<<"u">>, <<"d">>, <<"p">>, "res", R1mm, FeatV))

Records == {RecA, RecB, RecC, RecD, RecE, RecF}

\* longest catalog handed to _match_annot
MaxCatalog == 2

SeqsUpTo(S, n) == UNION {[1..k -> S] : k \in 0..n}

Catalogs == SeqsUpTo(Records, MaxCatalog)

-----------------------------------------------------------------------------
(* Constraint specifications *)

\* what a caller passes for one attribute
StrValues == {PyStr(ALL), PyStr(<<"s">>), PyStr(<<"x">>), PyStr(D10k),
              PyStr(<<"a">>)}
ListValues == {PyList(<<<<"x">>, <<"y">>>>), PyList(<<<<"a">>, <<"b">>>>),
               PyList(<<<<"s">>, <<"t">>>>), PyList(<<D10k, D32k>>)}
Values == StrValues \cup ListValues

\* keyword arguments with one or two keywords supplied
Kw1(k, v) == [NoKwargs EXCEPT ![k] = v]
Kw2(k1, v1, k2, v2) == [NoKwargs EXCEPT ![k1] = v1, ![k2] = v2]

KwargsSet ==
    {NoKwargs}
    \cup {Kw1(k, v) : k \in ALLKEYS, v \in Values}
    \cup {Kw2("den", v1, "res", v2) : v1 \in {PyStr(D10k)}, v2 \in {PyStr(R1mm)}}
    \cup {Kw2("source", v1, "format", v2) : v1 \in StrValues, v2 \in Values}

-----------------------------------------------------------------------------
(* _match_annot applied to a catalog and keyword arguments *)

\* _match_annot is not under study
MatchOff ==
    /\ m_info = <<>> /\ m_kwargs = NoKwargs /\ m_out = <<>> /\ m_pc = "off"

MatchInit ==
    /\ m_info \in Catalogs
    /\ m_kwargs \in KwargsSet
    /\ m_out = <<>>
    /\ m_pc = "call"

\* out = _match_annot(info, **kwargs)
CallMatchAnnot ==
    /\ m_pc = "call"
    /\ m_out' = MatchAnnot(m_info, m_kwargs)
    /\ m_pc' = "done"
    /\ UNCHANGED <<m_info, m_kwargs>>


-----------------------------------------------------------------------------
(* Properties of _match_annot *)

\* only key k is supplied
OnlyKey(kwargs, k) ==
    /\ kwargs[k] # PyNone
    /\ \A o \in ALLKEYS \ {k} : kwargs[o] = PyNone

InSeq(x, seq) == \E j \in 1..Len(seq) : seq[j] = x

\* C1: with only den supplied (a string), the records returned are exactly
\* those whose den is that string; a record whose den is null and whose res
\* is that string is not returned.
C1_DenOnlyExcludesRes ==
    (m_pc = "done" /\ OnlyKey(m_kwargs, "den") /\ IsStr(m_kwargs["den"]))
    => LET HasDen(d) == d["den"] = m_kwargs["den"]
       IN  m_out = SelectSeq(m_info, HasDen)

\* a list-valued constraint on k, as the claim reads it: all of the tags are
\* elements of the record's tags; the record's value equals one of the values
ListPasses(d, k, l) ==
    IF k = "tags"
    THEN /\ d[k].kind = "list"
         /\ \A j \in 1..Len(l) : InSeq(l[j], d[k].l)
    ELSE /\ d[k].kind = "str"
         /\ \E j \in 1..Len(l) : d[k].s = l[j]

\* C2: with one list-valued constraint on tags, source, desc, space, hemi or
\* format, a record is returned iff it holds all of the tags (tags), or its
\* value equals one of the listed values (the other attributes).
C2_ListConjunctionDisjunction ==
    \A k \in {"source", "desc", "space", "hemi", "tags", "format"} :
        (m_pc = "done" /\ OnlyKey(m_kwargs, k) /\ m_kwargs[k].kind = "list")
        => LET Passes(d) == ListPasses(d, k, m_kwargs[k].l)
           IN  m_out = SelectSeq(m_info, Passes)

\* C3: source="all" alone returns exactly the records with a non-null
\* source, in catalog order; with nothing supplied the whole catalog is
\* returned, in catalog order.
C3_SourceWildcard ==
    /\ (m_pc = "done" /\ m_kwargs = Kw1("source", PyStr(ALL)))
       => LET HasSource(d) == d["source"] # PyNone
          IN  m_out = SelectSeq(m_info, HasSource)
    /\ (m_pc = "done" /\ m_kwargs = NoKwargs) => m_out = m_info

\* source="all" on a catalog of a record with a source after one without
C3_Witness ==
    /\ m_pc = "done"
    /\ m_kwargs = Kw1("source", PyStr(ALL))
    /\ m_info = <<RecF, RecD>>
    /\ m_out = <<RecD>>

-----------------------------------------------------------------------------
(* MATCH and _groupby_match *)
(* A filename is the sequence of its '_'-separated segments 'lab-val'; a   *)
(* path is its directory (one leading segment "dir") and the filename.     *)

Digits == {"0", "1", "2", "3", "4", "5", "6", "7", "8", "9"}

\* \d+[k|m]{1,2} matches the whole of v
DenVal(v) ==
    \E n \in 1..2 :
        /\ Len(v) > n
        /\ \A j \in 1..(Len(v) - n) : v[j] \in Digits
        /\ \A j \in (Len(v) - n + 1)..Len(v) : v[j] \in {"k", "|", "m"}

\* source-(\S+)_desc-(\S+)_space-(\S+)_(?:den|res)-(\d+[k|m]{1,2})_ matches
\* with 'source-' at segment i, '_desc-' at j, '_space-' at k, the den or res
\* segment at l and a '_' after it
IsMatch(fn, i, j, k, l) ==
    /\ i < j /\ j < k /\ k < l /\ l < Len(fn)
    /\ fn[i].lab = "source" /\ fn[j].lab = "desc" /\ fn[k].lab = "space"
    /\ fn[l].lab \in {"den", "res"} /\ DenVal(fn[l].val)
    /\ (j = i + 1 => fn[i].val # <<>>)
    /\ (k = j + 1 => fn[j].val # <<>>)
    /\ (l = k + 1 => fn[k].val # <<>>)

\* the segments of fn with one of the labels
At(fn, labs) == {i \in 1..Len(fn) : fn[i].lab \in labs}

Matches(fn) ==
    {m \in At(fn, {"source"}) \X At(fn, {"desc"}) \X At(fn, {"space"})
            \X At(fn, {"den", "res"}) :
        IsMatch(fn, m[1], m[2], m[3], m[4])}

\* MATCH.search(fn) is not None
WellFormed(fn) == Matches(fn) # {}

\* the match the regex engine returns: the leftmost start, then each greedy
\* group as long as the rest allows
Better(a, b) ==
    \/ a[1] < b[1]
    \/ a[1] = b[1] /\ a[2] > b[2]
    \/ a[1] = b[1] /\ a[2] = b[2] /\ a[3] > b[3]
    \/ a[1] = b[1] /\ a[2] = b[2] /\ a[3] = b[3] /\ a[4] > b[4]

Search(fn) ==
    CHOOSE m \in Matches(fn) : \A o \in Matches(fn) \ {m} : Better(m, o)

\* MATCH.search(fn).groups(): the text of the three greedy groups (the
\* segments each spans) and the den or res value
Groups(fn) ==
    LET m == Search(fn)
    IN  <<SubSeq(fn, m[1], m[2] - 1), SubSeq(fn, m[2], m[3] - 1),
          SubSeq(fn, m[3], m[4] - 1), fn[m[4]].val>>

\* out[key].append(fn) for each fn: the keys in insertion order
RECURSIVE GroupKeys(_)
GroupKeys(fnames) ==
    IF fnames = <<>> THEN <<>>
    ELSE LET front == GroupKeys(SubSeq(fnames, 1, Len(fnames) - 1))
             key == Groups(fnames[Len(fnames)])
         IN  IF \E j \in 1..Len(front) : front[j] = key
             THEN front ELSE Append(front, key)

\* out[key]
Bucket(fnames, key) ==
    LET HasKey(fn) == Groups(fn) = key
    IN  SelectSeq(fnames, HasKey)

\* a one-element list kept as a list
CollapseKeepList(v) == [shape |-> "list", items |-> v]

\* v if len(v) > 1 else v[0]
Collapse(v) ==
    IF Len(v) > 1 THEN [shape |-> "list", items |-> v]
    ELSE [shape |-> "str", items |-> <<v[1]>>]

\* _groupby_match(fnames, return_single): a dict (its entries in insertion
\* order), one of its values, or the AttributeError of a filename MATCH
\* does not match
GroupbyMatch(fnames, return_single) ==
    IF \E j \in 1..Len(fnames) : ~WellFormed(fnames[j])
    THEN [shape |-> "AttributeError", entries |-> <<>>, items |-> <<>>]
    ELSE LET keys == GroupKeys(fnames)
             out == [j \in 1..Len(keys) |->
                        [key |-> keys[j],
                         value |-> Collapse(Bucket(fnames, keys[j]))]]
         IN  IF return_single /\ Len(out) = 1
             THEN [shape |-> out[1].value.shape, entries |-> <<>>,
                   items |-> out[1].value.items]
             ELSE [shape |-> "dict", entries |-> out, items |-> <<>>]

\* str(Path(data_dir) / 'annotations' / dset['rel_path'] / dset['fname'])
PathOf(dset) == <<Seg("dir", dset.rel_path)>> \o dset.fname

\* a name whose source holds '_desc-': the greedy source group takes it
GreedyName ==
    <<Seg("source", <<"s">>), Seg("desc", <<"d">>), Seg("desc", <<"d">>),
      Seg("space", <<"p">>), Seg("den", D10k), Seg("feature", <<"g">>)>>
\* a name without the den or res segment
BadName ==
    <<Seg("source", <<"s">>), Seg("desc", <<"d">>), Seg("space", <<"p">>),
      Seg("feature", <<"g">>)>>

Filenames ==
    {PathOf(RecA), PathOf(RecB), PathOf(RecC), PathOf(RecE), RecD.fname,
     GreedyName, BadName}

\* longest list handed to _groupby_match
MaxFnames == 3

NoResult == [shape |-> "none", entries |-> <<>>, items |-> <<>>]

\* _groupby_match is not under study
GroupOff ==
    /\ g_fnames = <<>> /\ g_single = FALSE /\ g_out = NoResult /\ g_pc = "off"

GroupInit ==
    /\ g_fnames \in SeqsUpTo(Filenames, MaxFnames)
    /\ g_single \in BOOLEAN
    /\ g_out = NoResult
    /\ g_pc = "call"

\* out = _groupby_match(fnames, return_single)
CallGroupbyMatch ==
    /\ g_pc = "call"
    /\ g_out' = GroupbyMatch(g_fnames, g_single)
    /\ g_pc' = "done"
    /\ UNCHANGED <<g_fnames, g_single>>


-----------------------------------------------------------------------------
(* get_annotations_desc *)

\* the "annotations" entries of info.json
DescInfo == <<RecA, RecC, RecD, RecE>>

\* annot.key: (source, desc, space, den combined first with res)
AnnotKey(d) ==
    <<d["source"].s, d["desc"].s, d["space"].s,
      (IF d["den"] # PyNone THEN d["den"] ELSE d["res"]).s>>

\* df_annot_info["annot.key"].tolist()
DescKeys == [j \in 1..Len(DescInfo) |-> AnnotKey(DescInfo[j])]

\* keys of annotations the catalog does not hold
UnknownKeys == {<<<<"z">>, <<"d">>, <<"p">>, D10k>>,
                <<<<"s">>, <<"d">>, <<"p">>, R1mm>>}

AnnotKeys == {DescKeys[j] : j \in 1..Len(DescKeys)} \cup UnknownKeys

\* annots: a list of keys, or one key that is not in a list (which line 278
\* wraps in a list: items holds the list after that line)
AnnotList(l) == [islist |-> TRUE, items |-> l]
AnnotTuple(k) == [islist |-> FALSE, items |-> <<k>>]

\* the row of the description table with the given key
DescRow(key) == [key |-> key, full_desc |-> <<"desc of", key>>]

\* get_annotations_desc(annots): the table rows returned, or the exception
\* raised, and the warnings issued.  `raise warnings.warn(...)` issues the
\* warning and then raises what warn() returned, None: a TypeError.
GetAnnotationsDesc(a) ==
    LET annots == a.items
        NotAvail(k) == ~InSeq(k, DescKeys)
        annots_not_avail == SelectSeq(annots, NotAvail)
        Avail(k) == ~InSeq(k, annots_not_avail)
        annots_avail == SelectSeq(annots, Avail)
    IN  IF Len(annots_not_avail) > 0
        THEN [shape |-> "TypeError", rows |-> <<>>,
              warnings |-> <<annots_not_avail>>]
        ELSE [shape |-> "rows",
              rows |-> [j \in 1..Len(annots_avail) |-> DescRow(annots_avail[j])],
              warnings |-> <<>>]

\* longest list handed to get_annotations_desc
MaxAnnots == 3

\* get_annotations_desc is not under study
DescOff ==
    /\ d_annots = AnnotList(<<>>) /\ d_out = [shape |-> "none", rows |-> <<>>]
    /\ d_warnings = <<>> /\ d_pc = "off"

DescInit ==
    /\ d_annots \in {AnnotList(l) : l \in SeqsUpTo(AnnotKeys, MaxAnnots)}
                    \cup {AnnotTuple(k) : k \in AnnotKeys}
    /\ d_out = [shape |-> "none", rows |-> <<>>]
    /\ d_warnings = <<>>
    /\ d_pc = "call"

\* df = get_annotations_desc(annots)
CallGetAnnotationsDesc ==
    /\ d_pc = "call"
    /\ LET r == GetAnnotationsDesc(d_annots)
       IN  /\ d_out' = [shape |-> r.shape, rows |-> r.rows]
           /\ d_warnings' = r.warnings
    /\ d_pc' = "done"
    /\ UNCHANGED d_annots

\* C8: with some keys unknown, get_annotations_desc warns, drops them and
\* returns normally the rows of the known keys; it never ends in an error.
C8_UnknownKeysDropped ==
    d_pc = "done"
    => LET Known(k) == InSeq(k, DescKeys)
           known == SelectSeq(d_annots.items, Known)
       IN  /\ d_out.shape = "rows"
           /\ d_out.rows = [j \in 1..Len(known) |-> DescRow(known[j])]
           /\ (known # d_annots.items => d_warnings # <<>>)

-----------------------------------------------------------------------------
(* fetch_annotation *)

\* the invocations that may run at once: two processes sharing data_dir
Procs == {1, 2}

\* the "annotations" catalog: each record and whether it is restricted
Annotations ==
    <<[dset |-> RecA, restricted |-> FALSE],
      [dset |-> RecB, restricted |-> FALSE],
      [dset |-> RecD, restricted |-> TRUE]>>

\* get_dataset_info('annotations', return_restricted)
GetDatasetInfo(return_restricted) ==
    LET Visible(e) == return_restricted \/ ~e.restricted
        kept == SelectSeq(Annotations, Visible)
    IN  [j \in 1..Len(kept) |-> kept[j].dset]

\* NEUROMAPS_OSF_TOKEN is not set
EnvToken == PyNone

\* _get_token(token=token)
GetToken(token) == IF token # PyNone THEN token ELSE EnvToken

\* False if (token is None or not token) else True
ReturnRestricted(token) == Truthy(token)

\* the check of the input parameters passes whatever is given
SuppliedAlways(kwargs) == TRUE

\* the check of the input parameters: some val is not None
Supplied(kwargs) == \E k \in ALLKEYS : kwargs[k] # PyNone

\* the paths of the catalog's files under data_dir
Paths == {PathOf(Annotations[j].dset) : j \in 1..Len(Annotations)}

\* what _fetch_file can end in: the content downloaded has the checksum of
\* the catalog ("ok") or not ("corrupt"), or the transfer fails
Downloads == {"ok", "corrupt", "NetworkError"}

\* _fetch_file called without md5sum: whatever was downloaded is returned
FetchFileUnverified(dset, download) ==
    IF download = "NetworkError"
    THEN [raised |-> "NetworkError", file |-> "absent"]
    ELSE [raised |-> "no", file |-> download]

\* _fetch_file(dset['url'], str(fn.parent), md5sum=dset['checksum'],
\* session=session): the file returned, or the exception raised
FetchFile(dset, download) ==
    IF download = "NetworkError"
    THEN [raised |-> "NetworkError", file |-> "absent"]
    ELSE IF download = "corrupt"
    THEN [raised |-> "IntegrityError", file |-> "absent"]
    ELSE [raised |-> "no", file |-> "ok"]

\* what a call is made with
Args(kwargs, token, return_single) ==
    [kwargs |-> kwargs, token |-> token, return_single |-> return_single]

Token == PyStr(<<"k">>)

CallArgs ==
    {Args(NoKwargs, PyNone, TRUE)}
    \cup {Args(Kw1(k, PyStr(ALL)), PyNone, TRUE) : k \in ALLKEYS}
    \cup {Args(Kw1("source", PyStr(ALL)), Token, TRUE),
          Args(Kw1("hemi", PyStr(<<"R">>)), PyNone, FALSE)}

\* info = _match_annot(get_dataset_info('annotations', return_restricted),
\*                     source=source, ..., format=format)
Matched(a) ==
    MatchAnnot(GetDatasetInfo(ReturnRestricted(GetToken(a.token))), a.kwargs)

\* Matched, computed once for the arguments of the model
MatchedOf == [a \in CallArgs |-> Matched(a)]

NoArgs == Args(NoKwargs, PyNone, FALSE)
NoFirst == [set |-> FALSE, args |-> NoArgs, out |-> NoResult]

\* calls made in one run
MaxCalls == 3

\* fetch_annotation is not under study
FetchOff ==
    /\ f_pc = [p \in Procs |-> "off"]
    /\ f_args = [p \in Procs |-> NoArgs]
    /\ f_info = [p \in Procs |-> <<>>]
    /\ f_n = [p \in Procs |-> 1]
    /\ f_data = [p \in Procs |-> <<>>]
    /\ f_dl_file = [p \in Procs |-> "absent"]
    /\ f_io = [p \in Procs |-> {}]
    /\ f_out = [p \in Procs |-> NoResult]
    /\ cache = [f \in Paths |-> "absent"]
    /\ ncalls = 0
    /\ first = NoFirst
    /\ after = [p \in Procs |-> FALSE]

\* an empty cache and no call running
FetchInit ==
    /\ f_pc = [p \in Procs |-> "idle"]
    /\ f_args = [p \in Procs |-> NoArgs]
    /\ f_info = [p \in Procs |-> <<>>]
    /\ f_n = [p \in Procs |-> 1]
    /\ f_data = [p \in Procs |-> <<>>]
    /\ f_dl_file = [p \in Procs |-> "absent"]
    /\ f_io = [p \in Procs |-> {}]
    /\ f_out = [p \in Procs |-> NoResult]
    /\ cache = [f \in Paths |-> "absent"]
    /\ ncalls = 0
    /\ first = NoFirst
    /\ after = [p \in Procs |-> FALSE]

\* how a call ends: it returned, or raised one of these
Raised == {"ValueError", "IntegrityError", "NetworkError"}
Ended == {"returned"} \cup Raised

\* the locals of a call that ended
Locals(p) ==
    /\ f_info' = [f_info EXCEPT ![p] = <<>>]
    /\ f_n' = [f_n EXCEPT ![p] = 1]
    /\ f_data' = [f_data EXCEPT ![p] = <<>>]
    /\ f_dl_file' = [f_dl_file EXCEPT ![p] = "absent"]

\* fetch_annotation(**a) up to the loop: the check of the parameters, then
\* the token, the data directory, the catalog, the match and the session.
\* f_io[p] is the I/O the call has done.
Call(p, a) ==
    /\ f_pc[p] \in {"idle"} \cup Ended
    /\ ncalls < MaxCalls
    /\ ncalls' = ncalls + 1
    /\ f_args' = [f_args EXCEPT ![p] = a]
    /\ after' = [after EXCEPT ![p] = first.set /\ first.args = a]
    /\ f_out' = [f_out EXCEPT ![p] = NoResult]
    /\ IF ~Supplied(a.kwargs)
       THEN /\ f_pc' = [f_pc EXCEPT ![p] = "ValueError"]
            /\ f_io' = [f_io EXCEPT ![p] = {}]
            /\ Locals(p)
       ELSE /\ f_info' = [f_info EXCEPT ![p] = MatchedOf[a]]
            /\ f_io' = [f_io EXCEPT ![p] =
                  {"get_token", "get_data_dir", "get_dataset_info",
                   "get_session"}]
            /\ f_n' = [f_n EXCEPT ![p] = 1]
            /\ f_data' = [f_data EXCEPT ![p] = <<>>]
            /\ f_dl_file' = [f_dl_file EXCEPT ![p] = "absent"]
            /\ f_pc' = [f_pc EXCEPT ![p] = "loop"]
    /\ UNCHANGED <<cache, first>>

\* the record the loop is at, and its path
Dset(p) == f_info[p][f_n[p]]
Fn(p) == PathOf(Dset(p))

\* if not fn.exists(): ... else data.append(str(fn))
Exists(p) ==
    /\ f_pc[p] = "loop"
    /\ f_n[p] <= Len(f_info[p])
    /\ f_io' = [f_io EXCEPT ![p] = @ \cup {"exists"}]
    /\ IF cache[Fn(p)] # "absent"
       THEN /\ f_data' = [f_data EXCEPT ![p] = Append(@, Fn(p))]
            /\ f_n' = [f_n EXCEPT ![p] = @ + 1]
            /\ f_pc' = f_pc
       ELSE /\ f_pc' = [f_pc EXCEPT ![p] = "fetch"]
            /\ UNCHANGED <<f_data, f_n>>
    /\ UNCHANGED <<f_args, f_info, f_dl_file, f_out, cache, ncalls, first,
                   after>>

\* Fetch with a failure skipped: the loop goes on with the next record
FetchContinue(p, download) ==
    /\ f_pc[p] = "fetch"
    /\ f_io' = [f_io EXCEPT ![p] = @ \cup {"fetch"}]
    /\ LET r == FetchFile(Dset(p), download)
       IN  IF r.raised = "no"
           THEN /\ f_dl_file' = [f_dl_file EXCEPT ![p] = r.file]
                /\ f_pc' = [f_pc EXCEPT ![p] = "move"]
                /\ UNCHANGED <<f_info, f_n, f_data>>
           ELSE /\ f_pc' = [f_pc EXCEPT ![p] = "loop"]
                /\ f_n' = [f_n EXCEPT ![p] = @ + 1]
                /\ UNCHANGED <<f_info, f_data, f_dl_file>>
    /\ UNCHANGED <<f_args, f_out, cache, ncalls, first, after>>

\* dl_file = _fetch_file(...): it returns a file of this invocation, or
\* raises, which ends the call
Fetch(p, download) ==
    /\ f_pc[p] = "fetch"
    /\ f_io' = [f_io EXCEPT ![p] = @ \cup {"fetch"}]
    /\ LET r == FetchFile(Dset(p), download)
       IN  IF r.raised = "no"
           THEN /\ f_dl_file' = [f_dl_file EXCEPT ![p] = r.file]
                /\ f_pc' = [f_pc EXCEPT ![p] = "move"]
                /\ UNCHANGED <<f_info, f_n, f_data>>
           ELSE /\ f_pc' = [f_pc EXCEPT ![p] = r.raised]
                /\ Locals(p)
    /\ UNCHANGED <<f_args, f_out, cache, ncalls, first, after>>

\* Move with the file moved into fn.parent under its own name, not to fn
MoveToParent(p) ==
    /\ f_pc[p] = "move"
    /\ f_io' = [f_io EXCEPT ![p] = @ \cup {"move"}]
    /\ cache' = cache
    /\ f_dl_file' = [f_dl_file EXCEPT ![p] = "absent"]
    /\ f_data' = [f_data EXCEPT ![p] = Append(@, Fn(p))]
    /\ f_n' = [f_n EXCEPT ![p] = @ + 1]
    /\ f_pc' = [f_pc EXCEPT ![p] = "loop"]
    /\ UNCHANGED <<f_args, f_info, f_out, ncalls, first, after>>

\* shutil.move(dl_file, fn); data.append(str(fn))
Move(p) ==
    /\ f_pc[p] = "move"
    /\ f_io' = [f_io EXCEPT ![p] = @ \cup {"move"}]
    /\ cache' = [cache EXCEPT ![Fn(p)] = f_dl_file[p]]
    /\ f_dl_file' = [f_dl_file EXCEPT ![p] = "absent"]
    /\ f_data' = [f_data EXCEPT ![p] = Append(@, Fn(p))]
    /\ f_n' = [f_n EXCEPT ![p] = @ + 1]
    /\ f_pc' = [f_pc EXCEPT ![p] = "loop"]
    /\ UNCHANGED <<f_args, f_info, f_out, ncalls, first, after>>

\* return _groupby_match(data, return_single=return_single); the advisory
\* warning before it changes neither the result nor the cache
Return(p) ==
    /\ f_pc[p] = "loop"
    /\ f_n[p] > Len(f_info[p])
    /\ f_out' = [f_out EXCEPT ![p] =
                    GroupbyMatch(f_data[p], f_args[p].return_single)]
    /\ f_pc' = [f_pc EXCEPT ![p] = "returned"]
    /\ Locals(p)
    /\ \/ first' = first
       \/ /\ ~first.set
          /\ first' = [set |-> TRUE, args |-> f_args[p], out |-> f_out'[p]]
    /\ UNCHANGED <<f_args, f_io, cache, ncalls, after>>

-----------------------------------------------------------------------------
(* Properties of fetch_annotation *)

\* the call of p is in its loop
InLoop(p) == f_pc[p] \in {"loop", "fetch", "move"}

\* C4: a call with one of the eight parameters set to "all" and the others
\* omitted matches every record of the visible catalog.
C4_AllMatchesEverything ==
    \A p \in Procs :
        (InLoop(p) /\ \E k \in ALLKEYS : f_args[p].kwargs = Kw1(k, PyStr(ALL)))
        => f_info[p]
             = GetDatasetInfo(ReturnRestricted(GetToken(f_args[p].token)))

\* C5: a call made after a call with the same arguments returned invokes
\* _fetch_file not once, raises nothing and returns the same result; and a
\* call reaches _fetch_file for a record only from a check that found the
\* record's path absent.
C5_CacheIdempotence ==
    /\ [](\A p \in Procs :
            after[p] => /\ "fetch" \notin f_io[p]
                        /\ f_pc[p] \notin {"fetch", "move"} \cup Raised
                        /\ (f_pc[p] = "returned" => f_out[p] = first.out))
    /\ [][\A p \in Procs :
            (f_pc[p] # "fetch" /\ f_pc'[p] = "fetch")
            => (f_pc[p] = "loop" /\ cache[Fn(p)] = "absent")]_vars

\* a second call with the arguments of a call that fetched files returned
C5_Witness ==
    \E p \in Procs :
        /\ after[p] /\ f_pc[p] = "returned"
        /\ first.out.shape = "list" /\ Len(first.out.items) = 2
        /\ f_out[p] = first.out
        /\ f_io[p] = {"get_token", "get_data_dir", "get_dataset_info",
                      "get_session", "exists"}

\* C6: a call with all eight parameters null raises ValueError having done
\* no I/O: no token, data directory, catalog or session, no existence check,
\* no fetch and no move (so the cache is as it was).
C6_NoConstraintNoIO ==
    \A p \in Procs :
        (f_pc[p] # "idle" /\ f_args[p].kwargs = NoKwargs)
        => (f_pc[p] = "ValueError" /\ f_io[p] = {})

\* a call without parameters raised while the cache holds a file
C6_Witness ==
    \E p \in Procs :
        /\ f_pc[p] = "ValueError" /\ f_args[p].kwargs = NoKwargs
        /\ f_io[p] = {}
        /\ \E f \in Paths : cache[f] = "ok"

\* C7 as claimed: a checksum failure does not abort the sibling fetches, so
\* a call is ended by one only when no later matched record is left.
C7_FailureSparesSiblings ==
    [][\A p \in Procs :
        (f_pc[p] = "fetch" /\ f_pc'[p] = "IntegrityError")
        => f_n[p] = Len(f_info[p])]_vars

\* C7 as amended: a failure of _fetch_file (checksum mismatch or network
\* error) ends the call with that exception and leaves the cache as it is;
\* the call that raised does nothing more: the later matched records are
\* neither checked nor fetched nor placed by it.
C7_FailureEndsCall ==
    [][\A p \in Procs :
        /\ (f_pc[p] = "fetch" /\ f_pc'[p] \notin {"fetch", "move"})
           => (f_pc'[p] \in {"IntegrityError", "NetworkError"}
               /\ cache' = cache)
        /\ (f_pc[p] \in Raised
            /\ <<f_pc'[p], f_io'[p], f_n'[p]>> # <<f_pc[p], f_io[p], f_n[p]>>)
           => ncalls' = ncalls + 1]_vars

\* a call that matched two records raised at the first: the second is absent
C7_Witness ==
    \E p \in Procs :
        /\ f_pc[p] = "IntegrityError"
        /\ Len(MatchedOf[f_args[p]]) = 2
        /\ \A f \in Paths : cache[f] = "absent"

\* C10: a path of the cache goes from absent to present only by the move of
\* an invocation whose _fetch_file returned a verified file for that path; a
\* failing _fetch_file leaves the cache as it is; and no file of the cache
\* ever holds a payload that failed the checksum.
C10_PlacementSafety ==
    /\ [](\A f \in Paths : cache[f] \in {"absent", "ok"})
    /\ [][\A f \in Paths :
            cache'[f] # cache[f]
            => \E p \in Procs :
                /\ f_pc[p] = "move" /\ f_pc'[p] = "loop"
                /\ Fn(p) = f
                /\ f_dl_file[p] = "ok" /\ cache'[f] = "ok"
                /\ "fetch" \in f_io[p]]_vars
    /\ [][\A p \in Procs :
            (f_pc[p] = "fetch" /\ f_pc'[p] \in Raised) => cache' = cache]_vars

\* two invocations fetched the same missing record; one has placed it and
\* the other is about to move its own file over it
C10_Witness ==
    \E p, q \in Procs :
        /\ p # q
        /\ f_pc[q] = "move" /\ f_dl_file[q] = "ok"
        /\ cache[Fn(q)] = "ok"
        /\ "move" \in f_io[p] /\ f_pc[p] = "loop"
        /\ f_info[p][f_n[p] - 1] = Dset(q)

-----------------------------------------------------------------------------
(* Specifications *)

InitMatch == MatchInit /\ GroupOff /\ DescOff /\ FetchOff
NextMatch == CallMatchAnnot /\ UNCHANGED <<g_vars, d_vars, f_vars>>
SpecMatch == InitMatch /\ [][NextMatch]_vars

InitGroup == GroupInit /\ MatchOff /\ DescOff /\ FetchOff
NextGroup == CallGroupbyMatch /\ UNCHANGED <<m_vars, d_vars, f_vars>>
SpecGroup == InitGroup /\ [][NextGroup]_vars

InitDesc == DescInit /\ MatchOff /\ GroupOff /\ FetchOff
NextDesc == CallGetAnnotationsDesc /\ UNCHANGED <<m_vars, g_vars, f_vars>>
SpecDesc == InitDesc /\ [][NextDesc]_vars

InitFetch == FetchInit /\ MatchOff /\ GroupOff /\ DescOff
FetchCall == \E p \in Procs, a \in CallArgs : Call(p, a)
FetchExists == \E p \in Procs : Exists(p)
FetchFetch == \E p \in Procs, download \in Downloads : Fetch(p, download)
FetchMove == \E p \in Procs : Move(p)
FetchReturn == \E p \in Procs : Return(p)
NextFetch ==
    \/ FetchCall /\ UNCHANGED <<m_vars, g_vars, d_vars>>
    \/ FetchExists /\ UNCHANGED <<m_vars, g_vars, d_vars>>
    \/ FetchFetch /\ UNCHANGED <<m_vars, g_vars, d_vars>>
    \/ FetchMove /\ UNCHANGED <<m_vars, g_vars, d_vars>>
    \/ FetchReturn /\ UNCHANGED <<m_vars, g_vars, d_vars>>
SpecFetch == InitFetch /\ [][NextFetch]_vars

====
